---- MODULE Spec2Model ----
(***************************************************************************)
(* Media library page (src/src/app/media-library/page.tsx): the state of   *)
(* MediaLibraryPage, its handlers and effects, and the pager and filter    *)
(* bar that feed it.                                                       *)
(*                                                                         *)
(* A JavaScript string is a sequence of one-character strings, so that     *)
(* toLowerCase, includes and startsWith are computed and not assumed.      *)
(***************************************************************************)
EXTENDS Integers, Sequences, FiniteSets, TLC

\* JavaScript null and undefined; neither is a sequence of characters.
Null == <<"null">>
Undefined == <<"undefined">>

\* JavaScript truthiness of a string | null | undefined value.
Truthy(v) == v # Null /\ v # Undefined /\ v # <<>>

----------------------------------------------------------------------------
\* String literals of the source.
T_Root == <<"R", "o", "o", "t">>
T_RootHref == <<"/", "m", "e", "d", "i", "a", "-", "l", "i", "b", "r", "a", "r", "y">>
T_MBSuffix == <<" ", "M", "B">>
T_Dot == <<".">>
T_CakesName == <<"C", "a", "k", "e", "s">>
T_CakesDesc == <<"C", "o", "l", "l", "e", "c", "t", "i", "o", "n", " ", "o", "f", " ", "c", "a", "k", "e", " ", "p", "h", "o", "t", "o", "s", " ", "f", "o", "r", " ", "t", "h", "e", " ", "b", "a", "k", "e", "r", "y", " ", "w", "e", "b", "s", "i", "t", "e">>
T_DessertsName == <<"D", "e", "s", "s", "e", "r", "t", "s">>
T_DessertsDesc == <<"V", "a", "r", "i", "o", "u", "s", " ", "d", "e", "s", "s", "e", "r", "t", " ", "i", "m", "a", "g", "e", "s", " ", "f", "o", "r", " ", "m", "e", "n", "u", " ", "c", "a", "r", "d", "s">>
T_MusicName == <<"M", "u", "s", "i", "c">>
T_MusicDesc == <<"B", "a", "c", "k", "g", "r", "o", "u", "n", "d", " ", "m", "u", "s", "i", "c", " ", "t", "r", "a", "c", "k", "s", " ", "f", "o", "r", " ", "t", "h", "e", " ", "s", "t", "o", "r", "e">>
T_VideosName == <<"V", "i", "d", "e", "o", "s">>
T_VideosDesc == <<"P", "r", "o", "m", "o", "t", "i", "o", "n", "a", "l", " ", "v", "i", "d", "e", "o", "s", " ", "a", "n", "d", " ", "t", "u", "t", "o", "r", "i", "a", "l", "s">>
T_CakePhoto == <<"c", "a", "k", "e", "-", "p", "h", "o", "t", "o", "-">>
T_DessertPhoto == <<"d", "e", "s", "s", "e", "r", "t", "-", "p", "h", "o", "t", "o", "-">>
T_Track == <<"t", "r", "a", "c", "k", "-">>
T_Video == <<"v", "i", "d", "e", "o", "-">>
T_Jpg == <<".", "j", "p", "g">>
T_Mp3 == <<".", "m", "p", "3">>
T_Mp4 == <<".", "m", "p", "4">>
T_ThumbCake == <<"/", "p", "l", "a", "c", "e", "h", "o", "l", "d", "e", "r", "-", "i", "m", "a", "g", "e", "s", "/", "c", "a", "k", "e", "-">>
T_ThumbDessert == <<"/", "p", "l", "a", "c", "e", "h", "o", "l", "d", "e", "r", "-", "i", "m", "a", "g", "e", "s", "/", "d", "e", "s", "s", "e", "r", "t", "-">>
T_NewThumb == <<"/", "p", "l", "a", "c", "e", "h", "o", "l", "d", "e", "r", "-", "i", "m", "a", "g", "e", "s", "/", "n", "e", "w", "-", "i", "m", "a", "g", "e", "-", "t", "h", "u", "m", "b", ".", "j", "p", "g">>
T_TrackDescPre == <<"B", "a", "c", "k", "g", "r", "o", "u", "n", "d", " ", "t", "r", "a", "c", "k", " ", "f", "o", "r", " ">>
T_Morning == <<"m", "o", "r", "n", "i", "n", "g">>
T_Evening == <<"e", "v", "e", "n", "i", "n", "g">>
T_Ambiance == <<" ", "a", "m", "b", "i", "a", "n", "c", "e">>
T_VideoDescPre == <<"P", "r", "o", "m", "o", "t", "i", "o", "n", "a", "l", " ", "v", "i", "d", "e", "o", " ", "f", "o", "r", " ">>
T_SocialMedia == <<"s", "o", "c", "i", "a", "l", " ", "m", "e", "d", "i", "a">>
T_Website == <<"w", "e", "b", "s", "i", "t", "e">>
T_ImagePrefix == <<"i", "m", "a", "g", "e", "/">>
T_AudioPrefix == <<"a", "u", "d", "i", "o", "/">>
T_VideoPrefix == <<"v", "i", "d", "e", "o", "/">>

\* Inputs typed or dropped by the user (names, descriptions, queries, files).
T_XPng == <<"x", ".", "p", "n", "g">>
T_ImagePng == <<"i", "m", "a", "g", "e", "/", "p", "n", "g">>
T_SongMp3 == <<"a", ".", "m", "p", "3">>
T_AudioMpeg == <<"a", "u", "d", "i", "o", "/", "m", "p", "e", "g">>
T_NotesTxt == <<"n", ".", "t", "x", "t">>
T_NewFolder == <<"N", "e", "w">>
T_NewDesc == <<"c", "a", "k", "e", " ", "i", "d", "e", "a", "s">>
T_QCake == <<"C", "A", "K", "E">>
T_Bogus == <<"n", "o", "-", "s", "u", "c", "h", "-", "i", "d">>

----------------------------------------------------------------------------
\* String operations.
UpperChars == <<"A", "B", "C", "D", "E", "F", "G", "H", "I", "J", "K", "L", "M", "N", "O", "P", "Q", "R", "S", "T", "U", "V", "W", "X", "Y", "Z">>
LowerChars == <<"a", "b", "c", "d", "e", "f", "g", "h", "i", "j", "k", "l", "m", "n", "o", "p", "q", "r", "s", "t", "u", "v", "w", "x", "y", "z">>
DigitChars == <<"0", "1", "2", "3", "4", "5", "6", "7", "8", "9">>

\* String(n) for a natural number n.
RECURSIVE NumText(_)
NumText(n) ==
    IF n < 10 THEN <<DigitChars[n + 1]>>
    ELSE NumText(n \div 10) \o <<DigitChars[(n % 10) + 1]>>

LowerMap ==
    [c \in {UpperChars[i] : i \in 1..26} |->
        LowerChars[CHOOSE i \in 1..26 : UpperChars[i] = c]]

\* String.prototype.toLowerCase
toLowerCase(s) ==
    [i \in 1..Len(s) |-> IF s[i] \in DOMAIN LowerMap THEN LowerMap[s[i]] ELSE s[i]]

\* String.prototype.includes
includes(s, q) ==
    \E i \in 0..(Len(s) - Len(q)) : SubSeq(s, i + 1, i + Len(q)) = q

\* String.prototype.startsWith
startsWith(s, p) == Len(s) >= Len(p) /\ SubSeq(s, 1, Len(p)) = p

\* uuidv4(): the n-th identifier drawn; distinct draws give distinct
\* identifiers, and none is a string a user types.
Uuid(n) == <<"#">> \o NumText(n)

----------------------------------------------------------------------------
\* Program constants.
itemsPerPage == 10
CakesCount == 12
DessertsCount == 10
MusicCount == 12
VideosCount == 10
BytesPerMB == 1048576

\* Bounds of the model.
MaxFolders == 1
MaxUploadedFiles == 2
MaxSelected == 1
MaxEntries == 3
MaxSubmits == 2

----------------------------------------------------------------------------
\* FileItem, without dateModified (a clock reading) and path (a display string):
\* no handler and no derived view reads either.
FileItem(id, name, type, size, thumbnailUrl, description, parentId) ==
    [id |-> id, name |-> name, type |-> type, size |-> size,
     thumbnailUrl |-> thumbnailUrl, description |-> description,
     parentId |-> parentId]

\* An element of folderHistory.
HistoryItem(id, name, href) == [id |-> id, name |-> name, href |-> href]

\* A size drawn with Math.random() in the sample data; no handler reads it.
RandomSize == <<"?", ".", "?">> \o T_MBSuffix

rootFiles ==
    << FileItem(NumText(1), T_CakesName, "folder", Undefined, Undefined,
                T_CakesDesc, Null),
       FileItem(NumText(2), T_DessertsName, "folder", Undefined, Undefined,
                T_DessertsDesc, Null),
       FileItem(NumText(3), T_MusicName, "folder", Undefined, Undefined,
                T_MusicDesc, Null),
       FileItem(NumText(4), T_VideosName, "folder", Undefined, Undefined,
                T_VideosDesc, Null) >>

cakesFiles ==
    [k \in 1..CakesCount |->
        LET i == k - 1
            name == T_CakePhoto \o NumText(i + 1) \o T_Jpg
        IN  FileItem(Uuid(k), name, "image", RandomSize,
                     T_ThumbCake \o NumText((i % 5) + 1) \o T_Jpg, Undefined,
                     NumText(1))]

dessertsFiles ==
    [k \in 1..DessertsCount |->
        LET i == k - 1
            name == T_DessertPhoto \o NumText(i + 1) \o T_Jpg
        IN  FileItem(Uuid(CakesCount + k), name, "image", RandomSize,
                     T_ThumbDessert \o NumText((i % 5) + 1) \o T_Jpg, Undefined,
                     NumText(2))]

musicFiles ==
    [k \in 1..MusicCount |->
        LET i == k - 1
            name == T_Track \o NumText(i + 1) \o T_Mp3
        IN  FileItem(Uuid(CakesCount + DessertsCount + k), name, "audio",
                     RandomSize, Undefined,
                     IF i % 3 = 0
                       THEN T_TrackDescPre
                            \o (IF i % 2 = 0 THEN T_Morning ELSE T_Evening)
                            \o T_Ambiance
                       ELSE Undefined,
                     NumText(3))]

videoFiles ==
    [k \in 1..VideosCount |->
        LET i == k - 1
            name == T_Video \o NumText(i + 1) \o T_Mp4
        IN  FileItem(Uuid(CakesCount + DessertsCount + MusicCount + k), name,
                     "video", RandomSize, Undefined,
                     IF i % 3 = 0
                       THEN T_VideoDescPre
                            \o (IF i % 2 = 0 THEN T_SocialMedia ELSE T_Website)
                       ELSE Undefined,
                     NumText(4))]

generateSampleFiles ==
    rootFiles \o cakesFiles \o dessertsFiles \o musicFiles \o videoFiles

\* Identifiers drawn while the page is constructed: the root breadcrumb's
\* (Uuid(0)) and one per sample file.
SampleUuids == 1 + CakesCount + DessertsCount + MusicCount + VideosCount

----------------------------------------------------------------------------
\* Array helpers.

\* Array.prototype.findIndex on ids, counted from 1; 0 where JavaScript gives -1.
FindIndex(fs, id) ==
    LET S == {i \in 1..Len(fs) : fs[i].id = id}
    IN  IF S = {} THEN 0 ELSE CHOOSE i \in S : \A j \in S : i <= j

\* Array.prototype.slice(0, n)
SliceTo(s, n) == SubSeq(s, 1, IF n < Len(s) THEN n ELSE Len(s))

----------------------------------------------------------------------------
\* Inputs the model draws from.

\* Files handed to handleUploadFiles: a File has name, type (MIME) and size.
FileX == [name |-> T_XPng, type |-> T_ImagePng, size |-> 2000000]
FileA == [name |-> T_SongMp3, type |-> T_AudioMpeg, size |-> 262144]
FileN == [name |-> T_NotesTxt, type |-> <<>>, size |-> 0]
UploadBatches == {<<FileX>>, <<FileA, FileN>>}

FolderNames == {T_NewFolder}
Descriptions == {T_NewDesc}
SearchQueries == {<<>>, T_QCake}

\* The folder parameter of the URL the page is loaded with.
InitialUrls == {Null, NumText(1)}

----------------------------------------------------------------------------
VARIABLES
    addedFiles,       \* the FileItems put in files since construction, newest first
    currentFolderId,  \* string | null
    folderHistory,    \* {id, name, href?}[]
    folderParam,      \* searchParams.get('folder'): string | null
    searchQuery,
    filter,
    currentPage,
    isLoading,
    selectedFiles,    \* string[]
    selectedFile,     \* FileItem | null: <<>> is null, <<f>> is f
    selectedFolder,   \* FileItem | null: <<>> is null, <<f>> is f
    timers,           \* pending setTimeout callbacks of handleUploadFiles
    last,             \* history: the operation that led to this state
    issuedIn,         \* history: entry id -> currentFolderId when its call was issued
    issuedQueue,      \* history: currentFolderId at the start of each pending upload
    trip,             \* history: progress of navigateTo(X); navigateTo(null); navigateTo(X)
    pathCall,         \* a call of buildFolderPath on its own: arguments, locals, result
    addNewButton,     \* AddNewButton: folderModalOpen, uploadModalOpen
    folderCreationModal,  \* FolderCreationModal: folderName, description, error
    fileUploadModal,  \* FileUploadModal: selectedTab, filesToUpload,
                      \* selectedExistingFiles
    modalTimers       \* FileUploadModal: its running intervals and pending
                      \* timeouts with the time left to each; history: the
                      \* number of submits and the lists handed to onUploadFiles

vars == <<addedFiles, currentFolderId, folderHistory, folderParam, searchQuery,
          filter, currentPage, isLoading, selectedFiles, selectedFile,
          selectedFolder, timers, last, issuedIn, issuedQueue, trip, pathCall,
          addNewButton, folderCreationModal, fileUploadModal, modalTimers>>

\* The state of the ADD NEW button and its two dialogs.
dialogVars == <<addNewButton, folderCreationModal, fileUploadModal, modalTimers>>

\* The files state. It starts as generateSampleFiles() and is only ever set by
\* setFiles(prevFiles => [...new, ...prevFiles]), so it is the added entries
\* followed by the sample data.
FilesOf(added) == added \o generateSampleFiles
files == FilesOf(addedFiles)

\* The identifier the next uuidv4() call gives: one not drawn before.
uuidsDrawn == SampleUuids + Len(addedFiles)

----------------------------------------------------------------------------
\* Derived views.

\* A scope filter that lets every entry through.
inCurrentFolder_Everywhere(file, cf) == TRUE

inCurrentFolder(file, cf) == file.parentId = cf

\* A search that lower-cases the entry's texts but not the query.
matchesSearch_QueryAsTyped(file, q) ==
    \/ q = <<>>
    \/ includes(toLowerCase(file.name), q)
    \/ /\ Truthy(file.description)
       /\ includes(toLowerCase(file.description), q)

matchesSearch(file, q) ==
    \/ q = <<>>
    \/ includes(toLowerCase(file.name), toLowerCase(q))
    \/ /\ Truthy(file.description)
       /\ includes(toLowerCase(file.description), toLowerCase(q))

matchesType(file, k) == IF k # "all" THEN file.type = k ELSE TRUE

FilteredOf(fs, cf, q, k) ==
    SelectSeq(fs, LAMBDA file :
        inCurrentFolder(file, cf) /\ matchesSearch(file, q) /\ matchesType(file, k))

filteredFiles == FilteredOf(files, currentFolderId, searchQuery, filter)

\* Array.prototype.slice(a, b) for 0 <= a
Slice(s, a, b) ==
    LET lo == IF a < Len(s) THEN a ELSE Len(s)
        hi == IF b < Len(s) THEN b ELSE Len(s)
    IN  IF lo < hi THEN SubSeq(s, lo + 1, hi) ELSE <<>>

PageOf(fs, page) == Slice(fs, (page - 1) * itemsPerPage, page * itemsPerPage)

paginatedFiles == PageOf(filteredFiles, currentPage)

\* A page count without the lower bound of 1.
totalPages_CeilOnly == (Len(filteredFiles) + itemsPerPage - 1) \div itemsPerPage

\* Math.max(1, Math.ceil(filteredFiles.length / itemsPerPage))
totalPages ==
    LET c == (Len(filteredFiles) + itemsPerPage - 1) \div itemsPerPage
    IN  IF c > 1 THEN c ELSE 1

\* FilterBar: 'all' and the types present in the current folder.
availableFileTypes ==
    {"all"} \cup {files[i].type : i \in {j \in 1..Len(files) :
                                        files[j].parentId = currentFolderId}}

----------------------------------------------------------------------------
\* The effect that initializes the current folder from the URL.

RECURSIVE WalkUp(_, _, _, _)
\* The while loop of buildFolderPath: idx is the index of currentFolder (0 when
\* find returned undefined); steps counts the iterations left before an entry
\* must have been visited twice, from where the loop of the source never ends.
WalkUp(fs, idx, folderPath, steps) ==
    IF idx = 0 THEN folderPath
    ELSE IF steps = 0 THEN <<[diverges |-> TRUE]>>
    ELSE LET cur == fs[idx]
             path1 == <<HistoryItem(cur.id, cur.name, Undefined)>> \o folderPath
         IN  IF Truthy(cur.parentId)
               THEN WalkUp(fs, FindIndex(fs, cur.parentId), path1, steps - 1)
               ELSE path1

buildFolderPath(fs, folderId) ==
    <<HistoryItem(Null, T_Root, Undefined)>>
        \o WalkUp(fs, FindIndex(fs, folderId), <<>>, Len(fs))

\* The effect body, given the state its render sees; the result is the pair the
\* effect leaves in currentFolderId and folderHistory.
UrlEffect(param, fs, cf, hist) ==
    LET idx == FindIndex(fs, param)
    IN  IF Truthy(param) /\ idx > 0 /\ fs[idx].type = "folder"
          THEN [currentFolderId |-> param, folderHistory |-> buildFolderPath(fs, param)]
          ELSE [currentFolderId |-> cf, folderHistory |-> hist]

\* An effect whose dependency array names files only.
AfterRender_FilesOnly(param1, added1, cf1, hist1) ==
    IF added1 # addedFiles
      THEN UrlEffect(param1, FilesOf(added1), cf1, hist1)
      ELSE [currentFolderId |-> cf1, folderHistory |-> hist1]

\* A render after the handler set param1, added1, cf1 and hist1: the effect
\* runs if searchParams or files changed (its dependency array).
AfterRender(param1, added1, cf1, hist1) ==
    IF param1 # folderParam \/ added1 # addedFiles
      THEN UrlEffect(param1, FilesOf(added1), cf1, hist1)
      ELSE [currentFolderId |-> cf1, folderHistory |-> hist1]

----------------------------------------------------------------------------
\* History variables.

NoTrip == [phase |-> 4, x |-> Null, first |-> <<>>]

\* phase 0: nothing was done but folders created; phase 1: navigateTo(X) was
\* the first navigation, X an existing folder, and first is the folderHistory
\* it left; phase 2: navigateTo(null) followed; phase 3: navigateTo(X) followed
\* that; phase 4: any other run.
TripNext(op, folderId, folderName, histAfter) ==
    LET idx == FindIndex(files, folderId)
    IN  IF trip.phase = 0 /\ op = "createFolder" THEN trip
        ELSE IF /\ trip.phase = 0 /\ op = "navigateTo" /\ folderName = Undefined
           /\ idx > 0 /\ files[idx].type = "folder"
          THEN [phase |-> 1, x |-> folderId, first |-> histAfter]
        ELSE IF trip.phase = 1 /\ op = "navigateTo" /\ folderId = Null
          THEN [trip EXCEPT !.phase = 2]
        ELSE IF /\ trip.phase = 2 /\ op = "navigateTo" /\ folderId = trip.x
                /\ folderName = Undefined
          THEN [trip EXCEPT !.phase = 3]
        ELSE NoTrip

OtherOp == trip' = NoTrip

\* No call of buildFolderPath on its own is under way.
NoPathCall == [pc |-> "none"]

----------------------------------------------------------------------------
\* The page after construction, loaded with the given folder parameter.
Mounted(param) ==
    /\ addedFiles = <<>>
    /\ folderParam = param
    /\ LET mounted == UrlEffect(folderParam, generateSampleFiles, Null,
                                <<HistoryItem(Uuid(0), T_Root, T_RootHref)>>)
       IN  /\ currentFolderId = mounted.currentFolderId
           /\ folderHistory = mounted.folderHistory
    /\ searchQuery = <<>>
    /\ filter = "all"
    /\ currentPage = 1
    /\ isLoading = FALSE
    /\ selectedFiles = <<>>
    /\ selectedFile = <<>>
    /\ selectedFolder = <<>>
    /\ timers = <<>>
    /\ last = [op |-> "init"]
    /\ issuedIn = <<>>
    /\ issuedQueue = <<>>
    /\ trip = [phase |-> 0, x |-> Null, first |-> <<>>]
    /\ addNewButton = [folderModalOpen |-> FALSE, uploadModalOpen |-> FALSE]
    /\ folderCreationModal = [folderName |-> <<>>, description |-> <<>>,
                              error |-> <<>>]
    /\ fileUploadModal = [selectedTab |-> "upload", filesToUpload |-> <<>>,
                          selectedExistingFiles |-> <<>>]
    /\ modalTimers = [intervals |-> <<>>, timeouts |-> <<>>, submits |-> 0,
                      handed |-> <<>>]

Init ==
    /\ \E param \in InitialUrls : Mounted(param)
    /\ pathCall = NoPathCall

----------------------------------------------------------------------------
\* A setFiles that puts the new entries behind the previous ones.
PrependFiles_Behind(newFiles, prevFiles) == prevFiles \o newFiles

\* setFiles(prevFiles => [...newFiles, ...prevFiles]), on the added entries.
PrependFiles(newFiles, prevFiles) == newFiles \o prevFiles

----------------------------------------------------------------------------
\* handleCreateFolder

CreatedFolders == Cardinality({i \in 1..Len(addedFiles) : addedFiles[i].type = "folder"})

\* A new folder whose parentId is its own id.
NewFolder_OwnParent(folderName, description) ==
    FileItem(Uuid(uuidsDrawn), folderName, "folder", Undefined, Undefined,
             description, Uuid(uuidsDrawn))

NewFolder(folderName, description) ==
    FileItem(Uuid(uuidsDrawn), folderName, "folder", Undefined, Undefined,
             description, currentFolderId)

\* The handler, on the variables of the page.
handleCreateFolder(folderName, description) ==
    /\ CreatedFolders < MaxFolders
    /\ LET newFolder == NewFolder(folderName, description)
           added1 == PrependFiles(<<newFolder>>, addedFiles)
           eff == AfterRender(folderParam, added1, currentFolderId, folderHistory)
       IN  /\ addedFiles' = added1
           /\ currentFolderId' = eff.currentFolderId
           /\ folderHistory' = eff.folderHistory
           /\ issuedIn' = (newFolder.id :> currentFolderId) @@ issuedIn
    /\ last' = [op |-> "createFolder"]
    /\ trip' = TripNext("createFolder", Null, Undefined, <<>>)
    /\ UNCHANGED pathCall
    /\ UNCHANGED <<folderParam, searchQuery, filter, currentPage, isLoading,
                   selectedFiles, selectedFile, selectedFolder, timers, issuedQueue>>

\* The handler called with a name and a description, the dialogs left alone.
CreateFolder(folderName, description) ==
    /\ handleCreateFolder(folderName, description)
    /\ UNCHANGED dialogVars

----------------------------------------------------------------------------
\* handleUploadFiles

RECURSIVE SumLen(_)
SumLen(ts) == IF ts = <<>> THEN 0 ELSE Len(Head(ts).uploadedFiles) + SumLen(Tail(ts))

\* Files uploaded so far, those of the pending uploads included.
UploadedFiles == Len(addedFiles) - CreatedFolders + SumLen(timers)

\* A classification by the text in front of the slash being a prefix.
fileTypeOf_NoSlash(file) ==
    IF startsWith(file.type, SubSeq(T_ImagePrefix, 1, 5)) THEN "image"
    ELSE IF startsWith(file.type, SubSeq(T_AudioPrefix, 1, 5)) THEN "audio"
    ELSE IF startsWith(file.type, SubSeq(T_VideoPrefix, 1, 5)) THEN "video"
    ELSE "document"

fileTypeOf(file) ==
    IF startsWith(file.type, T_ImagePrefix) THEN "image"
    ELSE IF startsWith(file.type, T_AudioPrefix) THEN "audio"
    ELSE IF startsWith(file.type, T_VideoPrefix) THEN "video"
    ELSE "document"

\* A size in units of 1e6 bytes.
toFixed1MB_Decimal(bytes) ==
    LET tenths == (bytes * 20 + 1000000) \div (2 * 1000000)
    IN  NumText(tenths \div 10) \o T_Dot \o NumText(tenths % 10)

\* (bytes / (1024 * 1024)).toFixed(1): the quotient is exact in a double, and
\* toFixed takes the nearer tenth, the larger one on a tie.
toFixed1MB(bytes) ==
    LET tenths == (bytes * 20 + BytesPerMB) \div (2 * BytesPerMB)
    IN  NumText(tenths \div 10) \o T_Dot \o NumText(tenths % 10)

\* The FileItem made of the k-th file of an upload; cf is the currentFolderId
\* the callback closed over.
UploadedItem(file, k, cf) ==
    LET fileType == fileTypeOf(file)
    IN  FileItem(Uuid(uuidsDrawn + k - 1), file.name, fileType,
                 toFixed1MB(file.size) \o T_MBSuffix,
                 IF fileType = "image" THEN T_NewThumb ELSE Undefined,
                 Undefined, cf)

\* A callback that read the state of the render current when it runs.
ClosureFolderId_AtCompletion(t) == currentFolderId

\* The currentFolderId the callback of timer t reads: the one of the render
\* that made the handler.
ClosureFolderId(t) == t.currentFolderId

\* The handler, on the variables of the page.
handleUploadFiles(uploadedFiles) ==
    /\ UploadedFiles + Len(uploadedFiles) <= MaxUploadedFiles
    /\ isLoading' = TRUE
    /\ timers' = Append(timers, [uploadedFiles |-> uploadedFiles,
                                 currentFolderId |-> currentFolderId])
    /\ issuedQueue' = Append(issuedQueue, currentFolderId)
    /\ last' = [op |-> "uploadFiles"]
    /\ OtherOp
    /\ UNCHANGED pathCall
    /\ UNCHANGED <<addedFiles, currentFolderId, folderHistory, folderParam,
                   searchQuery, filter, currentPage, selectedFiles, selectedFile,
                   selectedFolder, issuedIn>>

\* The handler called with a list of files, the dialogs left alone.
UploadFiles(uploadedFiles) ==
    /\ handleUploadFiles(uploadedFiles)
    /\ UNCHANGED dialogVars

\* A map that gives the entries in the reverse of the order of the files.
newFilesOf_Reversed(uploadedFiles, cf) ==
    LET n == Len(uploadedFiles)
    IN  [k \in 1..n |-> UploadedItem(uploadedFiles[n + 1 - k], k, cf)]

\* uploadedFiles.map(file => ...): one entry per file, in the files' order.
newFilesOf(uploadedFiles, cf) ==
    [k \in 1..Len(uploadedFiles) |-> UploadedItem(uploadedFiles[k], k, cf)]

\* A callback that leaves the loading flag as it finds it.
LoadingAfterTimeout_Kept == isLoading

\* setIsLoading(false) at the end of the callback.
LoadingAfterTimeout == FALSE

\* The setTimeout callback; equal delays fire in the order they were set.
\* setFiles gives files a new array, also for no new entry, so the effect on
\* [searchParams, files] runs after it.
UploadTimeout ==
    /\ timers # <<>>
    /\ LET t == Head(timers)
           n == Len(t.uploadedFiles)
           newFiles == newFilesOf(t.uploadedFiles, ClosureFolderId(t))
           added1 == PrependFiles(newFiles, addedFiles)
           eff == UrlEffect(folderParam, FilesOf(added1), currentFolderId,
                            folderHistory)
       IN  /\ addedFiles' = added1
           /\ currentFolderId' = eff.currentFolderId
           /\ folderHistory' = eff.folderHistory
           /\ issuedIn' = [id \in {newFiles[k].id : k \in 1..n} |-> Head(issuedQueue)]
                              @@ issuedIn
    /\ isLoading' = LoadingAfterTimeout
    /\ timers' = Tail(timers)
    /\ issuedQueue' = Tail(issuedQueue)
    /\ last' = [op |-> "uploadTimeout"]
    /\ OtherOp
    /\ UNCHANGED <<pathCall, dialogVars>>
    /\ UNCHANGED <<folderParam, searchQuery, filter, currentPage, selectedFiles,
                   selectedFile, selectedFolder>>

----------------------------------------------------------------------------
\* Selection and the two modals.

SelectIds == {Uuid(1)}
OpenIds == {NumText(1), Uuid(1)}

SelectFile(id, selected) ==
    /\ selected => Len(selectedFiles) < MaxSelected
    /\ selectedFiles' = IF selected THEN Append(selectedFiles, id)
                        ELSE SelectSeq(selectedFiles, LAMBDA fileId : fileId # id)
    /\ last' = [op |-> "other"]
    /\ OtherOp
    /\ UNCHANGED <<pathCall, dialogVars>>
    /\ UNCHANGED <<addedFiles, currentFolderId, folderHistory, folderParam,
                   searchQuery, filter, currentPage, isLoading, selectedFile,
                   selectedFolder, timers, issuedIn, issuedQueue>>

OpenFolder(folderId) ==
    /\ LET idx == FindIndex(files, folderId)
       IN  selectedFolder' = IF idx > 0 /\ files[idx].type = "folder"
                               THEN <<files[idx]>> ELSE selectedFolder
    /\ last' = [op |-> "other"]
    /\ OtherOp
    /\ UNCHANGED <<pathCall, dialogVars>>
    /\ UNCHANGED <<addedFiles, currentFolderId, folderHistory, folderParam,
                   searchQuery, filter, currentPage, isLoading, selectedFiles,
                   selectedFile, timers, issuedIn, issuedQueue>>

OpenFile(fileId) ==
    /\ LET idx == FindIndex(files, fileId)
       IN  IF idx > 0 /\ files[idx].type # "folder"
             THEN selectedFile' = <<files[idx]>> /\ UNCHANGED selectedFolder
           ELSE IF idx > 0 /\ files[idx].type = "folder"
             THEN selectedFolder' = <<files[idx]>> /\ UNCHANGED selectedFile
           ELSE UNCHANGED <<selectedFile, selectedFolder>>
    /\ last' = [op |-> "other"]
    /\ OtherOp
    /\ UNCHANGED <<pathCall, dialogVars>>
    /\ UNCHANGED <<addedFiles, currentFolderId, folderHistory, folderParam,
                   searchQuery, filter, currentPage, isLoading, selectedFiles,
                   timers, issuedIn, issuedQueue>>

\* onClose of FileViewModal and of FolderViewModal.
CloseFileModal ==
    /\ selectedFile # <<>>
    /\ selectedFile' = <<>>
    /\ last' = [op |-> "other"]
    /\ OtherOp
    /\ UNCHANGED <<pathCall, dialogVars>>
    /\ UNCHANGED <<addedFiles, currentFolderId, folderHistory, folderParam,
                   searchQuery, filter, currentPage, isLoading, selectedFiles,
                   selectedFolder, timers, issuedIn, issuedQueue>>

CloseFolderModal ==
    /\ selectedFolder # <<>>
    /\ selectedFolder' = <<>>
    /\ last' = [op |-> "other"]
    /\ OtherOp
    /\ UNCHANGED <<pathCall, dialogVars>>
    /\ UNCHANGED <<addedFiles, currentFolderId, folderHistory, folderParam,
                   searchQuery, filter, currentPage, isLoading, selectedFiles,
                   selectedFile, timers, issuedIn, issuedQueue>>

----------------------------------------------------------------------------
\* handleNavigateToFolder

\* The ids of the folders made since construction.
CreatedFolderIds ==
    {addedFiles[i].id : i \in {j \in 1..Len(addedFiles) : addedFiles[j].type = "folder"}}

\* folderName is left out or is the name of the entry.
NavNames(folderId) ==
    LET idx == FindIndex(files, folderId)
    IN  {Undefined} \cup (IF idx > 0 THEN {files[idx].name} ELSE {})

\* The early return.
\* A handler without the early return.
SameFolder_Never(folderId) == FALSE

\* A handler that also returns early for an id no file has.
SameFolder_OrNoEntry(folderId) ==
    folderId = currentFolderId \/ (folderId # Null /\ FindIndex(files, folderId) = 0)

SameFolder(folderId) == folderId = currentFolderId

\* A handler that leaves the folder parameter alone when it goes to root.
NavParam_KeepAtRoot(folderId, folderName) ==
    IF folderId = Null THEN folderParam
    ELSE IF folderName # Undefined /\ folderName # Null THEN folderName
    ELSE folderId

\* params after params.delete('folder') or params.set('folder', folderName ?? folderId)
NavParam(folderId, folderName) ==
    IF folderId = Null THEN Null
    ELSE IF folderName # Undefined /\ folderName # Null THEN folderName
    ELSE folderId

\* A handler that sets currentFolderId without looking the folder up.
NavFolderId_NoLookup(folderId) == folderId

\* What the handler sets in currentFolderId.
NavFolderId(folderId) ==
    IF folderId = Null THEN Null
    ELSE IF FindIndex(files, folderId) > 0 THEN folderId
    ELSE currentFolderId

\* What the handler sets in folderHistory.
NavHistory(folderId, folderName) ==
    LET idx == FindIndex(files, folderId)
        index == FindIndex(folderHistory, folderId)
    IN  IF folderId = Null THEN <<HistoryItem(Null, T_Root, T_RootHref)>>
        ELSE IF idx = 0 THEN folderHistory
        ELSE IF Truthy(folderName)
          THEN IF index >= 1 THEN SliceTo(folderHistory, index) ELSE folderHistory
        ELSE Append(folderHistory, HistoryItem(folderId, files[idx].name, Undefined))

NavigateToFolder(folderId, folderName) ==
    /\ IF SameFolder(folderId)
         THEN /\ UNCHANGED <<currentFolderId, folderHistory, folderParam,
                             currentPage, selectedFolder>>
              /\ trip' = TripNext("navigateTo", folderId, folderName, folderHistory)
         ELSE LET param1 == NavParam(folderId, folderName)
                  eff == AfterRender(param1, addedFiles, NavFolderId(folderId),
                                     NavHistory(folderId, folderName))
              IN  /\ folderParam' = param1
                  /\ currentFolderId' = eff.currentFolderId
                  /\ folderHistory' = eff.folderHistory
                  /\ currentPage' = 1
                  /\ selectedFolder' = <<>>
                  /\ trip' = TripNext("navigateTo", folderId, folderName,
                                      eff.folderHistory)
    /\ last' = [op |-> "navigateTo", folderId |-> folderId,
                named |-> folderName # Undefined,
                same |-> folderId = currentFolderId,
                shown |-> currentPage > 1 /\ selectedFolder # <<>>]
    /\ UNCHANGED <<pathCall, dialogVars>>
    /\ UNCHANGED <<addedFiles, searchQuery, filter, isLoading, selectedFiles,
                   selectedFile, timers, issuedIn, issuedQueue>>

----------------------------------------------------------------------------
\* handleBreadcrumbNavigation

BreadcrumbHistory(index) == SliceTo(folderHistory, index + 1)

\* A handler that also clears the selection.
BreadcrumbNavigation_Deselecting(index) ==
    /\ index \in 0..(Len(folderHistory) - 1)
    /\ LET newHistory == BreadcrumbHistory(index)
       IN  /\ folderHistory' = newHistory
           /\ currentFolderId' = newHistory[Len(newHistory)].id
    /\ currentPage' = 1
    /\ selectedFiles' = <<>>
    /\ last' = [op |-> "breadcrumb", index |-> index]
    /\ OtherOp
    /\ UNCHANGED <<pathCall, dialogVars>>
    /\ UNCHANGED <<addedFiles, folderParam, searchQuery, filter, isLoading,
                   selectedFile, selectedFolder, timers, issuedIn,
                   issuedQueue>>

BreadcrumbNavigation(index) ==
    /\ index \in 0..(Len(folderHistory) - 1)
    /\ LET newHistory == BreadcrumbHistory(index)
       IN  /\ folderHistory' = newHistory
           /\ currentFolderId' = newHistory[Len(newHistory)].id
    /\ currentPage' = 1
    /\ last' = [op |-> "breadcrumb", index |-> index]
    /\ OtherOp
    /\ UNCHANGED <<pathCall, dialogVars>>
    /\ UNCHANGED <<addedFiles, folderParam, searchQuery, filter, isLoading,
                   selectedFiles, selectedFile, selectedFolder, timers, issuedIn,
                   issuedQueue>>

----------------------------------------------------------------------------
\* Search, type filter and pager.

\* The effect on [searchQuery, filter]: it runs when either changed.
\* A page that no effect resets.
PageAfter_Kept(searchQuery1, filter1) == currentPage

PageAfter(searchQuery1, filter1) ==
    IF searchQuery1 # searchQuery \/ filter1 # filter THEN 1 ELSE currentPage

SetSearchQuery(q) ==
    /\ searchQuery' = q
    /\ currentPage' = PageAfter(q, filter)
    /\ last' = [op |-> "setSearchQuery", same |-> q = searchQuery,
                page |-> currentPage]
    /\ OtherOp
    /\ UNCHANGED <<pathCall, dialogVars>>
    /\ UNCHANGED <<addedFiles, currentFolderId, folderHistory, folderParam, filter,
                   isLoading, selectedFiles, selectedFile, selectedFolder, timers,
                   issuedIn, issuedQueue>>

\* onFilter is called by the filter bar with one of the types it offers.
SetFilter(k) ==
    /\ k \in availableFileTypes
    /\ filter' = k
    /\ currentPage' = PageAfter(searchQuery, k)
    /\ last' = [op |-> "setFilter", same |-> k = filter, page |-> currentPage]
    /\ OtherOp
    /\ UNCHANGED <<pathCall, dialogVars>>
    /\ UNCHANGED <<addedFiles, currentFolderId, folderHistory, folderParam,
                   searchQuery, isLoading, selectedFiles, selectedFile,
                   selectedFolder, timers, issuedIn, issuedQueue>>

\* Pagination.getPageNumbers: the numbered buttons shown for total pages.
PageNumbers(total) ==
    IF total <= 7 THEN 1..total
    ELSE IF currentPage <= 3 THEN {1, 2, 3, 4, total}
    ELSE IF currentPage >= total - 2 THEN {1, total - 3, total - 2, total - 1, total}
    ELSE {1, currentPage - 1, currentPage, currentPage + 1, total}

\* setCurrentPage, as called by the pager.
SetPage(page) ==
    /\ currentPage' = page
    /\ last' = [op |-> "other"]
    /\ OtherOp
    /\ UNCHANGED <<pathCall, dialogVars>>
    /\ UNCHANGED <<addedFiles, currentFolderId, folderHistory, folderParam,
                   searchQuery, filter, isLoading, selectedFiles, selectedFile,
                   selectedFolder, timers, issuedIn, issuedQueue>>

PagePrevious ==
    /\ currentPage # 1
    /\ SetPage(IF currentPage - 1 > 1 THEN currentPage - 1 ELSE 1)

PageNumber == \E page \in PageNumbers(totalPages) : SetPage(page)

PageNext ==
    LET total == totalPages
    IN  /\ currentPage # total
        /\ SetPage(IF currentPage + 1 < total THEN currentPage + 1 ELSE total)

----------------------------------------------------------------------------
\* Two environments. In the first the user adds entries, navigates and pages;
\* in the second the user navigates, searches, filters, pages, selects and
\* opens the modals, and adds folders.

\* Navigation targets: root, a sample folder, the folders made since, and an
\* id of no entry.
NavTargets == {Null, NumText(1), T_Bogus} \cup CreatedFolderIds

\* Navigation targets of the second environment.
ViewNavTargets == {Null, NumText(1)} \cup CreatedFolderIds

Next ==
    \/ \E folderName \in FolderNames, description \in Descriptions :
          CreateFolder(folderName, description)
    \/ \E uploadedFiles \in UploadBatches : UploadFiles(uploadedFiles)
    \/ UploadTimeout
    \/ \E folderId \in NavTargets : \E folderName \in NavNames(folderId) :
          NavigateToFolder(folderId, folderName)
    \/ \E index \in 0..(Len(folderHistory) - 1) : BreadcrumbNavigation(index)
    \/ PagePrevious
    \/ PageNumber
    \/ PageNext

Spec == Init /\ [][Next]_vars

NextView ==
    \/ \E folderName \in FolderNames, description \in Descriptions :
          CreateFolder(folderName, description)
    \/ \E folderId \in ViewNavTargets : \E folderName \in NavNames(folderId) :
          NavigateToFolder(folderId, folderName)
    \/ \E index \in 0..(Len(folderHistory) - 1) : BreadcrumbNavigation(index)
    \/ \E q \in SearchQueries : SetSearchQuery(q)
    \/ \E k \in availableFileTypes : SetFilter(k)
    \/ PagePrevious
    \/ PageNumber
    \/ PageNext
    \/ \E id \in SelectIds, selected \in BOOLEAN : SelectFile(id, selected)
    \/ \E id \in OpenIds : OpenFolder(id)
    \/ \E id \in OpenIds : OpenFile(id)
    \/ CloseFileModal
    \/ CloseFolderModal

----------------------------------------------------------------------------
\* buildFolderPath on its own, statement by statement, on any collection.

\* The variables of the page.
pageVars == <<addedFiles, currentFolderId, folderHistory, folderParam, searchQuery,
              filter, currentPage, isLoading, selectedFiles, selectedFile,
              selectedFolder, timers, last, issuedIn, issuedQueue, trip>>

\* Collections of n folders with ids '1'..'n' whose parentId is null, one of
\* the ids, or an id no entry has.
Collections(n) ==
    {[i \in 1..n |-> FileItem(NumText(i), NumText(i), "folder", Undefined,
                              Undefined, Undefined, parent[i])] :
        parent \in [1..n -> {Null, T_Bogus} \cup {NumText(j) : j \in 1..n}]}

\* The calls examined: a collection of at most MaxEntries entries and a
\* folderId.
PathCalls ==
    {[pc |-> "called", files |-> fs, folderId |-> folderId] :
        fs \in UNION {Collections(n) : n \in 0..MaxEntries},
        folderId \in {T_Bogus} \cup {NumText(j) : j \in 1..MaxEntries}}

InitPath == Mounted(Null) /\ pathCall \in PathCalls

\* let currentFolder = files.find(f => f.id === folderId); folderPath = []
BuildFolderPathEnter ==
    /\ pathCall.pc = "called"
    /\ pathCall' = [pc |-> "while", files |-> pathCall.files,
                    folderId |-> pathCall.folderId,
                    currentFolder |-> FindIndex(pathCall.files, pathCall.folderId),
                    folderPath |-> <<>>, iterations |-> 0]
    /\ UNCHANGED <<pageVars, dialogVars>>

\* An iteration that puts the folder at the end of folderPath (push).
BuildFolderPathIterate_Push ==
    /\ pathCall.pc = "while"
    /\ pathCall.currentFolder # 0
    /\ pathCall.iterations <= Len(pathCall.files)
    /\ LET cur == pathCall.files[pathCall.currentFolder]
           path1 == Append(pathCall.folderPath, HistoryItem(cur.id, cur.name, Undefined))
       IN  pathCall' =
             IF Truthy(cur.parentId)
               THEN [pathCall EXCEPT
                       !.currentFolder = FindIndex(pathCall.files, cur.parentId),
                       !.folderPath = path1,
                       !.iterations = pathCall.iterations + 1]
               ELSE [pc |-> "returned", files |-> pathCall.files,
                     folderId |-> pathCall.folderId,
                     iterations |-> pathCall.iterations + 1,
                     result |-> <<HistoryItem(Null, T_Root, Undefined)>> \o path1]
    /\ UNCHANGED <<pageVars, dialogVars>>

\* One iteration of while (currentFolder). The loop has no bound of its own:
\* the model stops following it one iteration after as many as there are
\* entries.
BuildFolderPathIterate ==
    /\ pathCall.pc = "while"
    /\ pathCall.currentFolder # 0
    /\ pathCall.iterations <= Len(pathCall.files)
    /\ LET cur == pathCall.files[pathCall.currentFolder]
           path1 == <<HistoryItem(cur.id, cur.name, Undefined)>> \o pathCall.folderPath
       IN  pathCall' =
             IF Truthy(cur.parentId)
               THEN [pathCall EXCEPT
                       !.currentFolder = FindIndex(pathCall.files, cur.parentId),
                       !.folderPath = path1,
                       !.iterations = pathCall.iterations + 1]
               ELSE [pc |-> "returned", files |-> pathCall.files,
                     folderId |-> pathCall.folderId,
                     iterations |-> pathCall.iterations + 1,
                     result |-> <<HistoryItem(Null, T_Root, Undefined)>> \o path1]
    /\ UNCHANGED <<pageVars, dialogVars>>

\* currentFolder is undefined: the loop ends and the path is returned.
BuildFolderPathReturn ==
    /\ pathCall.pc = "while"
    /\ pathCall.currentFolder = 0
    /\ pathCall' = [pc |-> "returned", files |-> pathCall.files,
                    folderId |-> pathCall.folderId,
                    iterations |-> pathCall.iterations,
                    result |-> <<HistoryItem(Null, T_Root, Undefined)>>
                                  \o pathCall.folderPath]
    /\ UNCHANGED <<pageVars, dialogVars>>

NextPath ==
    \/ BuildFolderPathEnter
    \/ BuildFolderPathIterate
    \/ BuildFolderPathReturn

SpecPath == InitPath /\ [][NextPath]_vars

----------------------------------------------------------------------------
\* The step in which the oldest pending timeout fires; of the handlers only
\* the setTimeout callback takes a timer off the queue.
TimerFires == timers # <<>> /\ timers' = Tail(timers)

\* The first environment with the timer's guarantee: a timeout that was set
\* fires.
SpecLive == Init /\ [][Next]_vars /\ WF_timers(TimerFires)

SpecView == Init /\ [][NextView]_vars

\* Navigation targets of the third environment: root, a sample folder and an
\* id of no entry.
PageNavTargets == {Null, NumText(1), T_Bogus}

\* The third environment: library and view operations together, with one
\* upload.
NextPage ==
    \/ \E folderName \in FolderNames, description \in Descriptions :
          CreateFolder(folderName, description)
    \/ UploadFiles(<<FileA, FileN>>)
    \/ UploadTimeout
    \/ \E folderId \in PageNavTargets : \E folderName \in NavNames(folderId) :
          NavigateToFolder(folderId, folderName)
    \/ \E index \in 0..(Len(folderHistory) - 1) : BreadcrumbNavigation(index)
    \/ \E q \in SearchQueries : SetSearchQuery(q)
    \/ \E k \in availableFileTypes : SetFilter(k)
    \/ PagePrevious
    \/ PageNext
    \/ \E id \in SelectIds, selected \in BOOLEAN : SelectFile(id, selected)
    \/ \E id \in OpenIds : OpenFolder(id)
    \/ CloseFolderModal

SpecPage == Init /\ [][NextPage]_vars

----------------------------------------------------------------------------
\* The ADD NEW button and the folder-creation dialog.

\* Characters String.prototype.trim takes off: white space and line ends.
WhiteSpace == {" ", "\t", "\n"}

RECURSIVE trimStart(_)
trimStart(s) ==
    IF s # <<>> /\ Head(s) \in WhiteSpace THEN trimStart(Tail(s)) ELSE s

RECURSIVE trimEnd(_)
trimEnd(s) ==
    IF s # <<>> /\ s[Len(s)] \in WhiteSpace
      THEN trimEnd(SubSeq(s, 1, Len(s) - 1)) ELSE s

\* A validation that takes the name as typed.
trim_None(s) == s

trim(s) == trimEnd(trimStart(s))

T_FolderNameRequired == <<"F","o","l","d","e","r"," ","n","a","m","e"," ",
                          "i","s"," ","r","e","q","u","i","r","e","d">>

\* What the user can type in the name field.
TypedNames == {<<>>, <<" ">>, <<" ", "\t">>, <<"\n">>, <<" ", "a", " ">>, T_NewFolder}

\* What the user can type in the description field.
TypedDescriptions == {<<>>, T_NewDesc}

\* The page variables createFolder does not write.
pageRest == <<folderParam, searchQuery, filter, currentPage, isLoading,
              selectedFiles, selectedFile, selectedFolder, timers, issuedQueue>>

\* The menu item 'Create Folder'.
OpenFolderModal ==
    /\ ~addNewButton.folderModalOpen
    /\ ~addNewButton.uploadModalOpen
    /\ addNewButton' = [addNewButton EXCEPT !.folderModalOpen = TRUE]
    /\ last' = [op |-> "other"]
    /\ UNCHANGED <<addedFiles, currentFolderId, folderHistory, issuedIn, trip,
                   pageRest, pathCall, folderCreationModal, fileUploadModal,
                   modalTimers>>

\* onClose of the dialog: Cancel, Escape or a click outside.
CloseFolderCreationModal ==
    /\ addNewButton.folderModalOpen
    /\ addNewButton' = [addNewButton EXCEPT !.folderModalOpen = FALSE]
    /\ last' = [op |-> "other"]
    /\ UNCHANGED <<addedFiles, currentFolderId, folderHistory, issuedIn, trip,
                   pageRest, pathCall, folderCreationModal, fileUploadModal,
                   modalTimers>>

\* onChange of the name field.
SetFolderName(value) ==
    /\ addNewButton.folderModalOpen
    /\ folderCreationModal' = [folderCreationModal EXCEPT !.folderName = value]
    /\ last' = [op |-> "other"]
    /\ UNCHANGED <<addedFiles, currentFolderId, folderHistory, issuedIn, trip,
                   pageRest, pathCall, addNewButton, fileUploadModal, modalTimers>>

\* onChange of the description field.
SetDescription(value) ==
    /\ addNewButton.folderModalOpen
    /\ folderCreationModal' = [folderCreationModal EXCEPT !.description = value]
    /\ last' = [op |-> "other"]
    /\ UNCHANGED <<addedFiles, currentFolderId, folderHistory, issuedIn, trip,
                   pageRest, pathCall, addNewButton, fileUploadModal, modalTimers>>

\* handleSubmit of the form. With a name, onCreateFolder is AddNewButton's
\* handleCreateFolder: the page's handler, then setFolderModalOpen(false).
SubmitFolderForm ==
    /\ addNewButton.folderModalOpen
    /\ IF trim(folderCreationModal.folderName) = <<>>
         THEN /\ folderCreationModal' =
                     [folderCreationModal EXCEPT !.error = T_FolderNameRequired]
              /\ last' = [op |-> "submitFolder", created |-> FALSE,
                          folderName |-> folderCreationModal.folderName]
              /\ UNCHANGED <<addedFiles, currentFolderId, folderHistory, issuedIn,
                             trip, pageRest, pathCall, addNewButton>>
         ELSE /\ handleCreateFolder(folderCreationModal.folderName,
                                    folderCreationModal.description)
              /\ folderCreationModal' =
                     [folderName |-> <<>>, description |-> <<>>, error |-> <<>>]
              /\ addNewButton' = [addNewButton EXCEPT !.folderModalOpen = FALSE]
    /\ UNCHANGED <<fileUploadModal, modalTimers>>

\* The fourth environment: the folder-creation dialog with navigation.
NextForm ==
    \/ OpenFolderModal
    \/ CloseFolderCreationModal
    \/ \E value \in TypedNames : SetFolderName(value)
    \/ \E value \in TypedDescriptions : SetDescription(value)
    \/ SubmitFolderForm
    \/ \E folderId \in ViewNavTargets : \E folderName \in NavNames(folderId) :
          NavigateToFolder(folderId, folderName)

SpecForm == Init /\ [][NextForm]_vars

----------------------------------------------------------------------------
\* Navigation targets of the fifth environment: root and two sample folders,
\* one of images and one of audio.
FilterNavTargets == {Null, NumText(1), NumText(3)}

\* The fifth environment: the filter bar and the pager with navigation, a
\* folder and one upload.
NextFilter ==
    \/ \E folderName \in FolderNames, description \in Descriptions :
          CreateFolder(folderName, description)
    \/ UploadFiles(<<FileA, FileN>>)
    \/ UploadTimeout
    \/ \E folderId \in FilterNavTargets : \E folderName \in NavNames(folderId) :
          NavigateToFolder(folderId, folderName)
    \/ \E index \in 0..(Len(folderHistory) - 1) : BreadcrumbNavigation(index)
    \/ \E q \in SearchQueries : SetSearchQuery(q)
    \/ \E k \in availableFileTypes : SetFilter(k)
    \/ PagePrevious
    \/ PageNumber
    \/ PageNext

SpecFilter == Init /\ [][NextFilter]_vars

----------------------------------------------------------------------------
\* The upload dialog. Time left to a timer is in milliseconds.

UploadTickMs == 200
CloseDelayMs == 1500
ProgressStep == 10
ProgressFull == 100

\* The page and the folder-creation dialog, which the upload dialog's own
\* steps leave alone.
besideUpload == <<addedFiles, currentFolderId, folderHistory, issuedIn, trip,
                  pageRest, pathCall, folderCreationModal>>

\* The menu item 'Upload File'.
OpenUploadModal ==
    /\ ~addNewButton.folderModalOpen
    /\ ~addNewButton.uploadModalOpen
    /\ addNewButton' = [addNewButton EXCEPT !.uploadModalOpen = TRUE]
    /\ last' = [op |-> "other"]
    /\ UNCHANGED <<besideUpload, fileUploadModal, modalTimers>>

\* onClose of the dialog: Cancel, Escape or a click outside.
CloseUploadModal ==
    /\ addNewButton.uploadModalOpen
    /\ addNewButton' = [addNewButton EXCEPT !.uploadModalOpen = FALSE]
    /\ last' = [op |-> "other"]
    /\ UNCHANGED <<besideUpload, fileUploadModal, modalTimers>>

\* onValueChange of the tabs.
SetSelectedTab(tab) ==
    /\ addNewButton.uploadModalOpen
    /\ fileUploadModal' = [fileUploadModal EXCEPT !.selectedTab = tab]
    /\ last' = [op |-> "other"]
    /\ UNCHANGED <<besideUpload, addNewButton, modalTimers>>

\* handleFiles, reached from the drop zone, which is shown while the queue
\* is empty. The id of an item is made of the time and the file's name.
HandleFiles(fileList) ==
    /\ addNewButton.uploadModalOpen
    /\ fileUploadModal.selectedTab = "upload"
    /\ fileUploadModal.filesToUpload = <<>>
    /\ LET newFiles == [k \in 1..Len(fileList) |->
                           [file |-> fileList[k], id |-> fileList[k].name,
                            progress |-> 0]]
       IN  fileUploadModal' = [fileUploadModal EXCEPT
                                  !.filesToUpload = @ \o newFiles]
    /\ last' = [op |-> "other"]
    /\ UNCHANGED <<besideUpload, addNewButton, modalTimers>>

\* removeFile, from the button of a queued item.
RemoveFile(id) ==
    /\ addNewButton.uploadModalOpen
    /\ fileUploadModal.selectedTab = "upload"
    /\ \E k \in 1..Len(fileUploadModal.filesToUpload) :
           fileUploadModal.filesToUpload[k].id = id
    /\ fileUploadModal' = [fileUploadModal EXCEPT
                              !.filesToUpload = SelectSeq(@, LAMBDA f : f.id # id)]
    /\ last' = [op |-> "other"]
    /\ UNCHANGED <<besideUpload, addNewButton, modalTimers>>

\* toggleExistingFileSelection, from the tab of existing files.
ToggleExistingFileSelection(id) ==
    /\ addNewButton.uploadModalOpen
    /\ fileUploadModal.selectedTab = "existing"
    /\ fileUploadModal' = [fileUploadModal EXCEPT !.selectedExistingFiles =
           IF \E k \in 1..Len(@) : @[k] = id
             THEN SelectSeq(@, LAMBDA fileId : fileId # id)
             ELSE Append(@, id)]
    /\ last' = [op |-> "other"]
    /\ UNCHANGED <<besideUpload, addNewButton, modalTimers>>

\* handleSubmit, from the button, which is disabled while the list of the
\* selected tab is empty. uploadFiles sets the interval.
SubmitUpload ==
    /\ addNewButton.uploadModalOpen
    /\ modalTimers.submits < MaxSubmits
    /\ ~(fileUploadModal.selectedTab = "upload"
            /\ Len(fileUploadModal.filesToUpload) = 0)
    /\ ~(fileUploadModal.selectedTab = "existing"
            /\ Len(fileUploadModal.selectedExistingFiles) = 0)
    /\ modalTimers' = [modalTimers EXCEPT
           !.intervals =
               IF fileUploadModal.selectedTab = "upload"
                    /\ Len(fileUploadModal.filesToUpload) > 0
                 THEN Append(@, [left |-> UploadTickMs,
                                 submitted |-> [k \in 1..Len(fileUploadModal.filesToUpload)
                                                  |-> fileUploadModal.filesToUpload[k].file]])
                 ELSE @,
           !.timeouts = Append(@, CloseDelayMs),
           !.submits = @ + 1]
    /\ last' = [op |-> "submitUpload"]
    /\ UNCHANGED <<besideUpload, addNewButton, fileUploadModal>>

\* The i-th element of a sequence taken out.
RemoveAt(seq, i) == SubSeq(seq, 1, i - 1) \o SubSeq(seq, i + 1, Len(seq))

\* The callback of the interval, with the updater it hands to
\* setFilesToUpload. When every queued item is complete it clears the
\* interval and calls onUploadFiles, which is AddNewButton's
\* handleUploadFiles: the page's handler, then setUploadModalOpen(false).
IntervalFires(i) ==
    /\ i \in 1..Len(modalTimers.intervals)
    /\ modalTimers.intervals[i].left = 0
    /\ LET prev == fileUploadModal.filesToUpload
           allComplete == \A k \in 1..Len(prev) : prev[k].progress >= ProgressFull
           uploaded == [k \in 1..Len(prev) |-> prev[k].file]
       IN  IF allComplete
             THEN /\ handleUploadFiles(uploaded)
                  /\ addNewButton' = [addNewButton EXCEPT !.uploadModalOpen = FALSE]
                  /\ modalTimers' = [modalTimers EXCEPT
                         !.intervals = RemoveAt(@, i),
                         !.handed = Append(@,
                             [submitted |-> modalTimers.intervals[i].submitted,
                              given |-> uploaded])]
                  /\ UNCHANGED <<folderCreationModal, fileUploadModal>>
             ELSE /\ fileUploadModal' = [fileUploadModal EXCEPT !.filesToUpload =
                         [k \in 1..Len(prev) |->
                             IF prev[k].progress < ProgressFull
                               THEN [prev[k] EXCEPT !.progress =
                                       IF @ + ProgressStep < ProgressFull
                                         THEN @ + ProgressStep ELSE ProgressFull]
                               ELSE prev[k]]]
                  /\ modalTimers' = [modalTimers EXCEPT
                                        !.intervals[i].left = UploadTickMs]
                  /\ last' = [op |-> "other"]
                  /\ UNCHANGED <<besideUpload, addNewButton>>

\* The callback of handleSubmit's timeout: onClose and the reset.
CloseTimeoutFires(i) ==
    /\ i \in 1..Len(modalTimers.timeouts)
    /\ modalTimers.timeouts[i] = 0
    /\ addNewButton' = [addNewButton EXCEPT !.uploadModalOpen = FALSE]
    /\ fileUploadModal' = [fileUploadModal EXCEPT !.filesToUpload = <<>>,
                                                  !.selectedExistingFiles = <<>>]
    /\ modalTimers' = [modalTimers EXCEPT !.timeouts = RemoveAt(@, i)]
    /\ last' = [op |-> "closeTimeout"]
    /\ UNCHANGED besideUpload

\* Time passes until the next timer of the dialog is due; a timer that is
\* due fires before time passes on.
TimePasses ==
    LET left == {modalTimers.intervals[i].left : i \in 1..Len(modalTimers.intervals)}
                  \cup {modalTimers.timeouts[i] : i \in 1..Len(modalTimers.timeouts)}
    IN  /\ left # {}
        /\ 0 \notin left
        /\ LET d == CHOOSE d \in left : \A e \in left : d <= e
           IN  modalTimers' = [modalTimers EXCEPT
                  !.intervals = [i \in 1..Len(@) |-> [@[i] EXCEPT !.left = @ - d]],
                  !.timeouts = [i \in 1..Len(@) |-> @[i] - d]]
        /\ last' = [op |-> "other"]
        /\ UNCHANGED <<besideUpload, addNewButton, fileUploadModal>>

\* The seventh environment: the upload dialog with its timers, and the
\* page's upload behind it.
NextUpload ==
    \/ OpenUploadModal
    \/ CloseUploadModal
    \/ \E tab \in {"upload", "existing"} : SetSelectedTab(tab)
    \/ \E fileList \in UploadBatches : HandleFiles(fileList)
    \/ \E id \in {T_SongMp3} : RemoveFile(id)
    \/ \E id \in SelectIds : ToggleExistingFileSelection(id)
    \/ SubmitUpload
    \/ \E i \in 1..Len(modalTimers.intervals) : IntervalFires(i)
    \/ \E i \in 1..Len(modalTimers.timeouts) : CloseTimeoutFires(i)
    \/ TimePasses
    \/ UploadTimeout

SpecUpload == Init /\ [][NextUpload]_vars

----------------------------------------------------------------------------
\* The MIME types of the files of the sixth environment.
MimeTypes ==
    {<<"i", "m", "a", "g", "e", "/", "p", "n", "g">>,
     <<"i", "m", "a", "g", "e", "/">>,
     <<"a", "u", "d", "i", "o", "/", "m", "p", "e", "g">>,
     <<"v", "i", "d", "e", "o", "/", "m", "p", "4">>,
     <<>>,
     <<"t", "e", "x", "t", "/", "p", "l", "a", "i", "n">>,
     <<"i", "m", "a", "g", "e">>,
     <<"i", "m", "a", "g", "e", "x", "/", "p", "n", "g">>,
     <<"x", "/", "i", "m", "a", "g", "e", "/", "p", "n", "g">>,
     <<"I", "m", "a", "g", "e", "/", "p", "n", "g">>,
     <<"v", "i", "d", "e", "o">>}

\* One file of no bytes per MIME type, named after its type.
KindFiles == {[name |-> m, type |-> m, size |-> 0] : m \in MimeTypes}

\* The sixth environment: uploads of one file of any of the MIME types, with
\* navigation between root and a sample folder.
NextKind ==
    \/ \E file \in KindFiles : UploadFiles(<<file>>)
    \/ UploadTimeout
    \/ \E folderId \in {Null, NumText(1)} : NavigateToFolder(folderId, Undefined)

SpecKind == Init /\ [][NextKind]_vars

----------------------------------------------------------------------------
\* Properties.

\* The ids and names of a folderHistory, in order.
IdName(hist) == [i \in 1..Len(hist) |-> <<hist[i].id, hist[i].name>>]

\* C1: every entry made by createFolder or by an upload has as parentId the
\* currentFolderId of the moment the call was issued; for an upload that is
\* the moment the upload started, not the moment its timer fired.
C1_ParentIsFolderAtIssue ==
    \A i \in 1..Len(addedFiles) :
        /\ addedFiles[i].id \in DOMAIN issuedIn
        /\ addedFiles[i].parentId = issuedIn[addedFiles[i].id]

\* An upload has completed after the current folder changed: its entry is
\* not in the folder now shown.
C1_Witness ==
    /\ last.op = "uploadTimeout"
    /\ addedFiles[1].type # "folder"
    /\ addedFiles[1].parentId # currentFolderId
    /\ addedFiles[1].parentId = issuedIn[addedFiles[1].id]

\* C2: folderHistory is never empty, its first element is root (id null) and
\* its last element's id is currentFolderId.
C2_HistoryInvariant ==
    /\ Len(folderHistory) >= 1
    /\ folderHistory[1].id = Null
    /\ folderHistory[Len(folderHistory)].id = currentFolderId


\* C3: no entry of filteredFiles, and so no entry of any page of it, has a
\* parentId other than currentFolderId; null matches only null.
C3_OnlyCurrentFolder ==
    /\ \A i \in 1..Len(filteredFiles) : filteredFiles[i].parentId = currentFolderId
    /\ \A p \in 1..totalPages :
           \A i \in 1..Len(PageOf(filteredFiles, p)) :
               PageOf(filteredFiles, p)[i].parentId = currentFolderId
    /\ \A i \in 1..Len(paginatedFiles) : paginatedFiles[i].parentId = currentFolderId

\* A folder other than root is shown, with a search, and something is visible.
C3_Witness ==
    /\ currentFolderId # Null
    /\ searchQuery # <<>>
    /\ Len(filteredFiles) > itemsPerPage
    /\ Len(paginatedFiles) > 0

\* The letters a and b are the same up to case.
C4_SameLetter(a, b) ==
    \/ a = b
    \/ \E i \in 1..26 : {a, b} = {UpperChars[i], LowerChars[i]}

\* q occurs in s, case ignored.
C4_Occurs(q, s) ==
    \E off \in 0..(Len(s) - Len(q)) :
        \A j \in 1..Len(q) : C4_SameLetter(q[j], s[off + j])

\* The entry passes the three filters.
C4_Passes(file) ==
    /\ file.parentId = currentFolderId
    /\ \/ searchQuery = <<>>
       \/ C4_Occurs(searchQuery, file.name)
       \/ file.description \notin {Null, Undefined} /\ C4_Occurs(searchQuery, file.description)
    /\ filter = "all" \/ file.type = filter

\* The indices of files whose entry passes.
C4_Passing == {i \in 1..Len(files) : C4_Passes(files[i])}

\* C4: filteredFiles is exactly the subsequence of files, in the order of
\* files, of the entries in the current folder that match the search (query
\* empty, or a case-insensitive substring of name or description) and the type
\* filter ("all" or the entry's type): its k-th element is the entry at the
\* k-th passing index.  A folder just created that is visible is the first
\* visible entry.
C4_ExactSubsequence ==
    /\ Len(filteredFiles) = Cardinality(C4_Passing)
    /\ \A k \in 1..Len(filteredFiles) :
           \E i \in C4_Passing :
               /\ Cardinality({j \in C4_Passing : j <= i}) = k
               /\ filteredFiles[k] = files[i]
    /\ (last.op = "createFolder" /\ C4_Passes(addedFiles[1]))
           => filteredFiles[1] = addedFiles[1]

\* A folder was just created in the folder shown; it matches the upper-case
\* query by its description only and is first, an older entry is visible
\* after it, and some entry of the folder is filtered out.
C4_Witness ==
    /\ last.op = "createFolder"
    /\ searchQuery = T_QCake
    /\ filter = "folder"
    /\ Len(filteredFiles) >= 2
    /\ filteredFiles[1] = addedFiles[1]
    /\ ~C4_Occurs(searchQuery, filteredFiles[1].name)
    /\ \E i \in 1..Len(files) :
           files[i].parentId = currentFolderId /\ ~C4_Passes(files[i])

\* The call was handleNavigateToFolder with a non-null id of an existing entry
\* other than the current folder.
C5_Case ==
    /\ last'.op = "navigateTo"
    /\ ~last'.same
    /\ last'.folderId # Null
    /\ FindIndex(files, last'.folderId) > 0

\* C5: such a call, with or without a display name, sets currentFolderId to
\* the id and truncates folderHistory to the element with that id if there is
\* one, and otherwise appends {id, name of the entry}.
C5_NavigateUpdatesHistory ==
    [][C5_Case =>
        LET folderId == last'.folderId
            index == FindIndex(folderHistory, folderId)
        IN  /\ currentFolderId' = folderId
            /\ IdName(folderHistory') =
                 IF index > 0
                   THEN IdName(SliceTo(folderHistory, index))
                   ELSE Append(IdName(folderHistory),
                               <<folderId, files[FindIndex(files, folderId)].name>>)]_vars

\* C6: from the initial state, or after folders were created in it,
\* navigateTo(X); navigateTo(null); navigateTo(X) for an existing folder X leaves folderHistory with the ids and names, in
\* order, that it had after the first navigateTo(X), and no id twice.
C6_RoundTrip ==
    trip.phase = 3 =>
        /\ IdName(folderHistory) = IdName(trip.first)
        /\ \A i, j \in 1..Len(folderHistory) :
               folderHistory[i].id = folderHistory[j].id => i = j

\* The round trip was made through a folder created inside another one.
C6_Witness ==
    /\ trip.phase = 3
    /\ last.op = "navigateTo"
    /\ ~last.same
    /\ currentFolderId = trip.x
    /\ Len(folderHistory) = 3

\* The folders at root level, in the order of files.
C7_RootEntries == SelectSeq(files, LAMBDA file : file.parentId = Null)

\* C7: handleBreadcrumbNavigation(i) leaves folderHistory equal to its former
\* first i+1 elements, sets currentFolderId to the id of the last of them and
\* the page to 1; for i = 0 currentFolderId is then null and, without search
\* or type filter, the root-level entries are shown.
C7_Breadcrumb ==
    [][last'.op = "breadcrumb" =>
        LET i == last'.index
        IN  /\ folderHistory' = SubSeq(folderHistory, 1, i + 1)
            /\ currentFolderId' = folderHistory[i + 1].id
            /\ currentPage' = 1
            /\ i = 0 =>
                 /\ currentFolderId' = Null
                 /\ (searchQuery = <<>> /\ filter = "all")
                        => filteredFiles' = C7_RootEntries]_vars

\* C8: after setSearchQuery or the filter bar's onFilter, whatever the
\* argument, the current page is 1.
C8_PageResetAlways ==
    last.op \in {"setSearchQuery", "setFilter"} => currentPage = 1

\* C8, amended: after setSearchQuery or onFilter with an argument other than
\* the value already set the current page is 1; with the value already set
\* the page is the one it was.
C8_PageResetOnChange ==
    [][last'.op \in {"setSearchQuery", "setFilter"} =>
        currentPage' = IF last'.same THEN currentPage ELSE 1]_vars

\* Page 2 was shown and a search for another query put the view on page 1.
C8_Witness ==
    /\ last.op = "setSearchQuery"
    /\ ~last.same
    /\ last.page = 2
    /\ currentPage = 1

\* C9: handleNavigateToFolder with the id of the current folder, null at root
\* included, changes none of currentFolderId, folderHistory, currentPage,
\* selectedFolder, the folder parameter, files and selectedFiles.
C9_SameFolderNoOp ==
    [][(last'.op = "navigateTo" /\ last'.folderId = currentFolderId) =>
        /\ UNCHANGED <<currentFolderId, folderHistory, currentPage, selectedFolder>>
        /\ UNCHANGED <<folderParam, addedFiles, selectedFiles>>
        /\ files' = files]_vars

\* The call with the current folder's id was made on page 2, with the folder
\* preview open and an entry selected.
C9_Witness ==
    /\ last.op = "navigateTo"
    /\ last.same
    /\ last.folderId = currentFolderId
    /\ currentPage = 2
    /\ selectedFolder # <<>>
    /\ selectedFiles # <<>>

\* C10: handleNavigateToFolder(null) while currentFolderId is not null sets
\* currentFolderId to null, folderHistory to the one element
\* {id: null, name: 'Root'}, and deletes the folder parameter.
C10_NavigateToRoot ==
    [][(last'.op = "navigateTo" /\ last'.folderId = Null /\ currentFolderId # Null) =>
        /\ currentFolderId' = Null
        /\ IdName(folderHistory') = <<<<Null, T_Root>>>>
        /\ folderParam' = Null]_vars

\* The call was made from inside a folder and left the view at root.
C10_Witness ==
    /\ last.op = "navigateTo"
    /\ last.folderId = Null
    /\ ~last.same
    /\ currentFolderId = Null
    /\ folderParam = Null
    /\ Len(folderHistory) = 1


\* C11: after every handleNavigateToFolder call with an id other than
\* currentFolderId (null, an existing folder's id, or an id no entry has) the
\* current page is 1 and no folder preview is open.
C11_NavigateResetsPageAndModal ==
    [][(last'.op = "navigateTo" /\ last'.folderId # currentFolderId) =>
        (currentPage' = 1 /\ selectedFolder' = <<>>)]_vars

\* The call was made with an id no entry has, from page 2 with the folder
\* preview open.
C11_Witness ==
    /\ last.op = "navigateTo"
    /\ last.folderId = T_Bogus
    /\ last.shown
    /\ currentPage = 1
    /\ selectedFolder = <<>>

\* The call was handleNavigateToFolder with a non-null id that no entry has.
C12_Case ==
    /\ last'.op = "navigateTo"
    /\ last'.folderId # Null
    /\ FindIndex(files, last'.folderId) = 0

C13_BusyWhilePending == timers # <<>> => isLoading

\* Entries in files that came from uploads.
C14_UploadedEntries == Len(addedFiles) - CreatedFolders

\* C14: with timeouts that fire, every upload that started completes: all the
\* files handed over are eventually entries of files with no timeout pending
\* and isLoading false; and whenever no timeout is pending isLoading is false.
C14_UploadsComplete ==
    /\ [](timers = <<>> => ~isLoading)
    /\ \A n \in 1..MaxUploadedFiles :
           (timers # <<>> /\ UploadedFiles = n)
               ~> (timers = <<>> /\ ~isLoading /\ C14_UploadedEntries >= n)
    /\ isLoading ~> ~isLoading

\* Two uploads overlapped and both have completed.
C14_Witness ==
    /\ last.op = "uploadTimeout"
    /\ timers = <<>>
    /\ ~isLoading
    /\ C14_UploadedEntries = MaxUploadedFiles
    /\ addedFiles[1].name = addedFiles[2].name


\* The step is the completion of an upload of the one file x.png, image/png,
\* 2000000 bytes.
C15_Case ==
    /\ last'.op = "uploadTimeout"
    /\ Head(timers).uploadedFiles = <<FileX>>

\* C15: the upload of {x.png, image/png, 2000000 bytes} yields exactly one
\* entry, of type image, with size "2.0 MB" (bytes / 1e6 to one decimal) and a
\* non-empty thumbnailUrl.
C15_SizeInDecimalMB ==
    [][C15_Case =>
        /\ Len(files') = Len(files) + 1
        /\ files'[1].name = T_XPng
        /\ files'[1].type = "image"
        /\ files'[1].size = <<"2", ".", "0", " ", "M", "B">>
        /\ files'[1].thumbnailUrl \notin {Null, Undefined, <<>>}]_vars

\* text is the decimal numeral, with one decimal place, of the tenth nearest
\* to bytes / 2^20, the larger one on a tie, followed by " MB".
C15_IsSizeOf(text, bytes) ==
    \E t \in 0..((10 * bytes) \div 1048576 + 1) :
        /\ -1048576 <= 2 * (10 * bytes - t * 1048576)
        /\ 2 * (10 * bytes - t * 1048576) < 1048576
        /\ text = NumText(t \div 10) \o <<".">> \o NumText(t % 10) \o <<" ", "M", "B">>

\* C15, amended: the size of an uploaded entry is bytes / (1024 * 1024) to one
\* decimal place followed by " MB"; the upload of {x.png, image/png, 2000000
\* bytes} yields exactly one entry, of type image, with size "1.9 MB" and a
\* non-empty thumbnailUrl.
C15_SizeInBinaryMB ==
    [][last'.op = "uploadTimeout" =>
        /\ \A k \in 1..Len(Head(timers).uploadedFiles) :
               C15_IsSizeOf(files'[k].size, Head(timers).uploadedFiles[k].size)
        /\ C15_Case =>
               /\ Len(files') = Len(files) + 1
               /\ files'[1].name = T_XPng
               /\ files'[1].type = "image"
               /\ files'[1].size = <<"1", ".", "9", " ", "M", "B">>
               /\ files'[1].thumbnailUrl \notin {Null, Undefined, <<>>}]_vars

\* x.png has just been uploaded and is the newest entry.
C15_Witness ==
    /\ last.op = "uploadTimeout"
    /\ files[1].name = T_XPng
    /\ files[1].size = <<"1", ".", "9", " ", "M", "B">>
    /\ files[1].type = "image"


\* C16: every entry's parentId is null or the id of an entry of files whose
\* type is folder.
C16_ParentIsFolder ==
    \A i \in 1..Len(files) :
        \/ files[i].parentId = Null
        \/ \E j \in 1..Len(files) :
               files[j].id = files[i].parentId /\ files[j].type = "folder"


\* C17: buildFolderPath returns for every collection and every folderId, a
\* cycle of parentIds included, after no more iterations than there are
\* entries.
C17_RebuildTerminates ==
    pathCall.pc \in {"while", "returned"} =>
        pathCall.iterations <= Len(pathCall.files)


\* The call was handleNavigateToFolder with the id of an existing folder
\* other than the current one.
C18_Case ==
    /\ last'.op = "navigateTo"
    /\ ~last'.same
    /\ last'.folderId # Null
    /\ FindIndex(files, last'.folderId) > 0
    /\ files[FindIndex(files, last'.folderId)].type = "folder"

\* C18: after handleNavigateToFolder(X) or handleNavigateToFolder(X, name) for
\* an existing folder X, a page loaded with the folder parameter the call left
\* starts with currentFolderId = X and folderHistory = buildFolderPath(X).
C18_UrlRoundTrip ==
    [][C18_Case =>
        LET X == last'.folderId
            seeded == UrlEffect(folderParam', files', Null,
                                <<HistoryItem(Uuid(0), T_Root, T_RootHref)>>)
        IN  /\ seeded.currentFolderId = X
            /\ IdName(seeded.folderHistory) = IdName(buildFolderPath(files', X))]_vars


\* C19: files only grows at its head: every step leaves the previous files as
\* an unchanged suffix; handleCreateFolder puts one new folder in front, the
\* completion of an upload puts its entries in front in the order of the
\* uploaded files, and no other operation changes files.
C19_AppendOnly ==
    [][/\ Len(files') >= Len(files)
       /\ SubSeq(files', Len(files') - Len(files) + 1, Len(files')) = files
       /\ last'.op = "createFolder" =>
              /\ Len(files') = Len(files) + 1
              /\ files'[1].type = "folder"
       /\ last'.op = "uploadTimeout" =>
              LET uploadedFiles == Head(timers).uploadedFiles
              IN  /\ Len(files') = Len(files) + Len(uploadedFiles)
                  /\ \A k \in 1..Len(uploadedFiles) :
                         files'[k].name = uploadedFiles[k].name
       /\ last'.op \notin {"createFolder", "uploadTimeout"} => files' = files]_vars

\* An upload of two files completed after a folder had been created: its
\* entries are in front, the folder behind them, the sample data last.
C19_Witness ==
    /\ last.op = "uploadTimeout"
    /\ Len(addedFiles) = 3
    /\ files[1].name = T_SongMp3
    /\ files[2].name = T_NotesTxt
    /\ files[3].type = "folder"
    /\ files[4] = generateSampleFiles[1]


\* C20: handleNavigateToFolder, handleBreadcrumbNavigation, setSearchQuery,
\* the filter bar's onFilter, page changes, handleCreateFolder and uploads
\* (start and completion) leave selectedFiles unchanged.
C20_SelectionKept ==
    [][(\/ last'.op \in {"navigateTo", "breadcrumb", "setSearchQuery", "setFilter",
                         "createFolder", "uploadFiles", "uploadTimeout"}
        \/ currentPage' # currentPage)
       => selectedFiles' = selectedFiles]_vars

\* A cake photo is selected and the view has just moved to root, where it is
\* not shown.
C20_Witness ==
    /\ last.op = "navigateTo"
    /\ ~last.same
    /\ currentFolderId = Null
    /\ selectedFiles = <<Uuid(1)>>
    /\ \A k \in 1..Len(filteredFiles) : filteredFiles[k].id # Uuid(1)

----------------------------------------------------------------------------
\* s is empty or all white space.
C21_Blank(s) == \A i \in 1..Len(s) : s[i] \in WhiteSpace

\* C21: a submit of the folder-creation form with a name that is empty or all
\* white space does not call createFolder: the entries stay as they are, the
\* error is 'Folder name is required' and the dialog stays open; so every
\* folder made through the form has a name with a character that is not white
\* space.
C21_BlankNameRejected ==
    /\ [](\A i \in 1..Len(addedFiles) :
             addedFiles[i].type = "folder" => ~C21_Blank(addedFiles[i].name))
    /\ [][(addNewButton.folderModalOpen
              /\ C21_Blank(folderCreationModal.folderName))
             => addedFiles' = addedFiles]_vars
    /\ [][(/\ addNewButton.folderModalOpen
            /\ C21_Blank(folderCreationModal.folderName)
            /\ last'.op \in {"submitFolder", "createFolder"})
             => /\ last'.op = "submitFolder"
                /\ folderCreationModal'.error = T_FolderNameRequired
                /\ folderCreationModal'.folderName = folderCreationModal.folderName
                /\ addNewButton'.folderModalOpen
                /\ files' = files]_vars

\* A folder named ' a ' was made through the form, and a later submit with a
\* name of a space and a tab was turned down.
C21_Witness ==
    /\ last.op = "submitFolder"
    /\ last.folderName = <<" ", "\t">>
    /\ folderCreationModal.error = T_FolderNameRequired
    /\ addNewButton.folderModalOpen
    /\ \E i \in 1..Len(addedFiles) : addedFiles[i].name = <<" ", "a", " ">>

----------------------------------------------------------------------------
\* The least integer c with c * itemsPerPage >= n.
C22_Ceil(n) ==
    CHOOSE c \in 0..n : c * itemsPerPage >= n /\ (c = 0 \/ (c - 1) * itemsPerPage < n)

\* The type filter is a type no entry of the current folder has.
C22_NoneOfKind ==
    /\ filter # "all"
    /\ \A i \in 1..Len(files) :
           files[i].parentId = currentFolderId => files[i].type # filter

\* C22: the page count handed to the pager is max(1, ceil(n / 10)) for n the
\* number of visible entries, so it is at least 1 in every state; with a type
\* filter that no entry of the current folder has, the visible entries are
\* none and the page count is 1.
C22_TotalPagesAtLeastOne ==
    /\ totalPages >= 1
    /\ LET c == C22_Ceil(Len(filteredFiles))
       IN  totalPages = IF c > 1 THEN c ELSE 1
    /\ C22_NoneOfKind => filteredFiles = <<>> /\ totalPages = 1

\* The filter is 'audio' in a folder that has entries, none of them audio.
C22_Witness ==
    /\ filter = "audio"
    /\ C22_NoneOfKind
    /\ \E i \in 1..Len(files) : files[i].parentId = currentFolderId
    /\ filteredFiles = <<>>
    /\ totalPages = 1

----------------------------------------------------------------------------
\* The entries of fs that are not folders, in order.
C23_NotFolders(fs) == SelectSeq(fs, LAMBDA f : f.type # "folder")

\* C23: an upload is all or nothing and ordered: its start and every step
\* other than its completion add none of its entries; the completion adds one
\* entry per file of the batch in one step, in the order of the files, in
\* front of everything the collection held at that moment.
C23_AllOrNothingInOrder ==
    [][/\ last'.op = "uploadFiles" =>
              /\ files' = files
              /\ Len(timers') = Len(timers) + 1
       /\ last'.op # "uploadTimeout" =>
              C23_NotFolders(files') = C23_NotFolders(files)
       /\ last'.op = "uploadTimeout" =>
              LET uploadedFiles == Head(timers).uploadedFiles
                  n == Len(uploadedFiles)
              IN  /\ Len(files') = n + Len(files)
                  /\ SubSeq(files', n + 1, Len(files')) = files
                  /\ \A k \in 1..n :
                         /\ files'[k].name = uploadedFiles[k].name
                         /\ files'[k].type # "folder"
                         /\ \A i \in 1..Len(files) : files[i].id # files'[k].id
                  /\ timers' = Tail(timers)]_vars

\* The batch of two files completed after a folder had been created in a
\* folder other than the one the upload started in: its two entries are in
\* front of the folder, in the order of the files.
C23_Witness ==
    /\ last.op = "uploadTimeout"
    /\ Len(addedFiles) = 3
    /\ addedFiles[1].name = T_SongMp3
    /\ addedFiles[2].name = T_NotesTxt
    /\ addedFiles[3].type = "folder"
    /\ addedFiles[1].parentId # addedFiles[3].parentId

----------------------------------------------------------------------------
\* mime is word, a slash, and anything.
C24_Begins(mime, word) ==
    /\ Len(mime) > Len(word)
    /\ \A i \in 1..Len(word) : mime[i] = word[i]
    /\ mime[Len(word) + 1] = "/"

\* The type the MIME type stands for.
C24_KindOf(mime) ==
    IF C24_Begins(mime, <<"i", "m", "a", "g", "e">>) THEN "image"
    ELSE IF C24_Begins(mime, <<"a", "u", "d", "i", "o">>) THEN "audio"
    ELSE IF C24_Begins(mime, <<"v", "i", "d", "e", "o">>) THEN "video"
    ELSE "document"

\* C24: every uploaded file gets its type from the prefix of its MIME type:
\* image for 'image/...', audio for 'audio/...', video for 'video/...' and
\* document for anything else, the empty MIME type included; the entry has a
\* thumbnailUrl exactly if its type is image.
C24_KindByMimePrefix ==
    [][last'.op = "uploadTimeout" =>
        \A k \in 1..Len(Head(timers).uploadedFiles) :
            /\ files'[k].type = C24_KindOf(Head(timers).uploadedFiles[k].type)
            /\ (files'[k].thumbnailUrl # Undefined) <=> (files'[k].type = "image")]_vars

\* Files of MIME types 'video/mp4' and 'imagex/png' have been uploaded: the
\* first is a video, the second a document, and neither has a thumbnailUrl.
C24_Witness ==
    /\ last.op = "uploadTimeout"
    /\ Len(addedFiles) = 2
    /\ addedFiles[1].name = <<"i", "m", "a", "g", "e", "x", "/", "p", "n", "g">>
    /\ addedFiles[1].type = "document"
    /\ addedFiles[2].name = <<"v", "i", "d", "e", "o", "/", "m", "p", "4">>
    /\ addedFiles[2].type = "video"
    /\ addedFiles[1].thumbnailUrl = Undefined
    /\ addedFiles[2].thumbnailUrl = Undefined

----------------------------------------------------------------------------
\* The parentIds of fs have no cycle: the entries can be ranked with every
\* parent below its children.
C25_Acyclic(fs) ==
    \E rank \in [1..Len(fs) -> 1..Len(fs)] :
        \A i, j \in 1..Len(fs) : fs[i].parentId = fs[j].id => rank[j] < rank[i]

\* The entry of fs with the given id.
C25_Entry(fs, id) == fs[CHOOSE i \in 1..Len(fs) : fs[i].id = id]

\* buildFolderPath was called on a collection without a cycle with the id of
\* one of its folders.
C25_Called ==
    /\ pathCall.pc # "none"
    /\ C25_Acyclic(pathCall.files)
    /\ \E i \in 1..Len(pathCall.files) :
           /\ pathCall.files[i].id = pathCall.folderId
           /\ pathCall.files[i].type = "folder"

\* C25: on a collection without a cycle of parentIds and for the id of one of
\* its folders, buildFolderPath returns a path that starts with root (id
\* null), ends with that folder, and in which every element after the second
\* is an entry whose parentId is the id of the element before it; where a
\* parentId names no entry the walk ends there.
C25_PathOfAcyclic ==
    C25_Called =>
        /\ (pathCall.pc = "while" /\ pathCall.currentFolder # 0)
              => pathCall.iterations < Len(pathCall.files)
        /\ pathCall.pc = "returned" =>
              LET result == pathCall.result
                  top == C25_Entry(pathCall.files, result[2].id)
              IN  /\ Len(result) >= 2
                  /\ result[1].id = Null
                  /\ result[Len(result)].id = pathCall.folderId
                  /\ \A i \in 3..Len(result) :
                         C25_Entry(pathCall.files, result[i].id).parentId
                             = result[i - 1].id
                  /\ \/ top.parentId = Null
                     \/ \A i \in 1..Len(pathCall.files) :
                            pathCall.files[i].id # top.parentId

\* The call returned root, '3', '2', '1' for a chain of three folders whose
\* topmost has a parentId that names no entry.
C25_Witness ==
    /\ pathCall.pc = "returned"
    /\ C25_Called
    /\ pathCall.folderId = NumText(1)
    /\ [i \in 1..Len(pathCall.result) |-> pathCall.result[i].id]
           = <<Null, NumText(3), NumText(2), NumText(1)>>
    /\ C25_Entry(pathCall.files, NumText(3)).parentId = T_Bogus

----------------------------------------------------------------------------
\* The walk along parentId from entry i ends without coming to an entry of
\* seen or to one it passed.
RECURSIVE C26_WalkEnds(_, _, _)
C26_WalkEnds(fs, i, seen) ==
    IF i \in seen THEN FALSE
    ELSE LET up == {j \in 1..Len(fs) : fs[j].id = fs[i].parentId}
         IN  \A j \in up : C26_WalkEnds(fs, j, seen \cup {i})

\* C26: in every state reached from the sample data by handleCreateFolder,
\* uploads and navigation, following parentId from any entry never comes back
\* to an entry already visited, so buildFolderPath returns for every folder
\* of the collection.
C26_Forest ==
    /\ \A i \in 1..Len(files) : C26_WalkEnds(files, i, {})
    /\ \A i \in 1..Len(files) :
           files[i].type = "folder" =>
               LET path == buildFolderPath(files, files[i].id)
               IN  /\ \A k \in 1..Len(path) : "id" \in DOMAIN path[k]
                   /\ path[Len(path)].id = files[i].id

\* An uploaded entry lies in a created folder that lies in a sample folder:
\* a chain of three parentId links.
C26_Witness ==
    \E i, j \in 1..Len(addedFiles), k \in (Len(addedFiles) + 1)..Len(files) :
        /\ files[i].type # "folder"
        /\ files[i].parentId = files[j].id
        /\ files[j].parentId = files[k].id
        /\ files[k].parentId = Null

----------------------------------------------------------------------------
\* C27: after construction only handleNavigateToFolder and
\* handleBreadcrumbNavigation change currentFolderId and folderHistory:
\* handleCreateFolder, the start and the completion of an upload and page
\* changes leave both as they are, also after a breadcrumb step that followed
\* a navigation which wrote the folder parameter of the URL.
C27_OnlyNavigationMoves ==
    [][last'.op \notin {"navigateTo", "breadcrumb"} =>
          /\ currentFolderId' = currentFolderId
          /\ folderHistory' = folderHistory]_vars

----------------------------------------------------------------------------
\* C28: in every state 1 <= currentPage <= totalPages, so that the page shown
\* has an entry whenever there is a visible entry.
C28_PageInRange ==
    /\ 1 <= currentPage
    /\ currentPage <= totalPages
    /\ filteredFiles # <<>> => paginatedFiles # <<>>

----------------------------------------------------------------------------
\* C29: after a submit on the upload tab with n >= 1 queued files,
\* onUploadFiles is called once for that submit with exactly those n files in
\* the order of the queue, however the ticks of the progress interval fall
\* relative to the timeout that closes and resets the dialog; it is never
\* called with an empty or a partial list.
C29_HandsOverTheQueue ==
    /\ \A i \in 1..Len(modalTimers.handed) :
           /\ modalTimers.handed[i].given # <<>>
           /\ modalTimers.handed[i].given = modalTimers.handed[i].submitted
    /\ Len(modalTimers.handed) + Len(modalTimers.intervals) <= modalTimers.submits

----------------------------------------------------------------------------
\* C30: in every state the active type filter is one of the options the
\* filter bar offers: 'all' or the type of an entry whose parentId is
\* currentFolderId; also after a navigation made with a filter other than
\* 'all' to a folder that has no entry of that type.
C30_FilterIsOffered ==
    \/ filter = "all"
    \/ \E i \in 1..Len(files) :
           files[i].parentId = currentFolderId /\ files[i].type = filter
====
